---- MODULE Spec2Model ----
(***************************************************************************)
(* A model of two pieces of the portmaster network-intelligence cache:     *)
(*                                                                         *)
(*   - package resolver (src/unnamed/part_000): the IPInfo record with     *)
(*     its resolved-domain history (AddDomain, MostRecentDomain, Save);    *)
(*   - package filterlists (src/ui/serve.go, lines 157-287): the block     *)
(*     list lookups (lookupBlockLists and the Lookup* entry points).       *)
(*                                                                         *)
(* Go strings are TLA+ strings, inspected character by character with     *)
(* SubSeq where the code indexes them.  A net.IP is a sequence of bytes.   *)
(***************************************************************************)
EXTENDS Integers, Sequences, FiniteSets, TLC

(***************************************************************************)
(* Bounds of the model.                                                    *)
(***************************************************************************)
\* AddDomain calls in one behaviour of the IPInfo machine.
MaxAdds == 3
\* The longest domain string the normalization is run on exhaustively.
MaxDomainLen == 3

(***************************************************************************)
(* Generic helpers.                                                        *)
(***************************************************************************)
\* A Go pointer result: <<>> is nil, <<v>> points at a copy of v.
Nil == <<>>
Ptr(v) == <<v>>
\* A Go nil error.
NoError == ""

(***************************************************************************)
(*                         package resolver                                *)
(***************************************************************************)

VARIABLES
    IP,               \* IPInfo.IP
    ProfileID,        \* IPInfo.ProfileID
    ResolvedDomains,  \* IPInfo.ResolvedDomains
    dbKey,            \* record.Base: the record's database key, "" = not set
    metaExpires,      \* record.Meta.Expires: the absolute expiry (Unix seconds)
    pc,               \* per goroutine: "idle", or "Put" between Save's Unlock
                      \* and its database write
    ret,              \* what the latest MostRecentDomain call returned
    store,            \* ipInfoDatabase: key -> the record as last Put
    now,              \* the wall clock, Unix seconds
    addLog            \* history variable: the AddDomain arguments, in the
                      \* order their critical sections ran

ipVars == <<IP, ProfileID, ResolvedDomains, dbKey, metaExpires,
            pc, ret, store, now, addLog>>

\* The goroutines that call into one IPInfo.
Threads == {1, 2}

\* src/unnamed/part_000:14
IPInfoProfileScopeGlobal == "global"

\* src/unnamed/part_000:168: "Minimum TTL of one day."
MinTTL == 86400
\* src/unnamed/part_000:175: "Add one hour to expiry as a buffer."
ExpiryBuffer == 3600

\* The ResolvedDomain values handed to AddDomain.  Expires is an absolute
\* timestamp: one tiny value, one shortly after the first clock reading, one
\* more than a day after it.
ResolvedInputs ==
    { [Domain |-> d, CNAMEs |-> s.CNAMEs, Expires |-> s.Expires] :
        d \in {"a.com", "b.com"},
        s \in { [CNAMEs |-> <<>>, Expires |-> 50],
                [CNAMEs |-> <<"cdn.example.net">>, Expires |-> 1700000100],
                [CNAMEs |-> <<"cdn.example.net", "edge.example.org">>,
                 Expires |-> 1700200000] } }

\* ---- pure parts of the code ------------------------------------------

\* part_000:99-100: the first index whose Domain equals domain, 0 if none.
IndexOfDomain(rds, domain) ==
    LET S == {i \in 1..Len(rds) : rds[i].Domain = domain}
    IN  IF S = {} THEN 0 ELSE CHOOSE i \in S : \A j \in S : i <= j

\* part_000:101: append(rds[:idx], rds[idx+1:]...), idx counted from 1 here.
RemoveAt(rds, idx) == SubSeq(rds, 1, idx - 1) \o SubSeq(rds, idx + 1, Len(rds))

\* A slip AddDomain could make: append without deleting the old entry.
AddDomainSeq_NoDelete(rds, resolved) == Append(rds, resolved)

\* A slip AddDomain could make: overwrite the old entry where it stands.
AddDomainSeq_InPlace(rds, resolved) ==
    LET idx == IndexOfDomain(rds, resolved.Domain)
    IN  IF idx = 0 THEN Append(rds, resolved)
        ELSE [rds EXCEPT ![idx] = resolved]

\* part_000:98-107: delete the old entry for the same domain, append the new.
AddDomainSeq(rds, resolved) ==
    LET idx == IndexOfDomain(rds, resolved.Domain)
    IN  Append(IF idx = 0 THEN rds ELSE RemoveAt(rds, idx), resolved)

\* part_000:115-120: a copy of the last element, or nil.
MostRecentOf(rds) == IF Len(rds) = 0 THEN Nil ELSE Ptr(rds[Len(rds)])

\* part_000:169-173: the loop's running maximum, started at `expires`.
RECURSIVE MaxExpiresFrom(_, _)
MaxExpiresFrom(expires, rds) ==
    IF rds = <<>> THEN expires
    ELSE MaxExpiresFrom(IF Head(rds).Expires > expires THEN Head(rds).Expires
                        ELSE expires,
                        Tail(rds))

\* A slip Save could make: forget the one-hour buffer.
SaveExpiry_NoBuffer(rds) == MaxExpiresFrom(MinTTL, rds)

\* A slip Save could make: take the last entry's Expires instead of the largest.
SaveExpiry_LastOnly(rds) ==
    (IF rds # <<>> /\ rds[Len(rds)].Expires > MinTTL
     THEN rds[Len(rds)].Expires ELSE MinTTL) + ExpiryBuffer

\* part_000:168-176: the value handed to Meta().SetAbsoluteExpiry.
SaveExpiry(rds) == MaxExpiresFrom(MinTTL, rds) + ExpiryBuffer

\* part_000:123-125
makeIPInfoKey(profileID, ip) == "cache:intel/ipInfo/" \o profileID \o "/" \o ip

\* record.Base.KeyIsSet, as used at part_000:159.
KeyIsSet == dbKey # ""

\* part_000:159-163: the ProfileID field after Save's key block.
SaveProfileID(key, profileID) ==
    IF key = "" /\ profileID = "" THEN IPInfoProfileScopeGlobal ELSE profileID

\* A slip Save could make: build the key anew on every Save.
SaveKey_Always(key, profileID, ip) ==
    makeIPInfoKey(SaveProfileID("", profileID), ip)

\* A slip Save could make: no default scope for an empty ProfileID.
SaveKey_NoDefault(key, profileID, ip) ==
    IF key = "" THEN makeIPInfoKey(profileID, ip) ELSE key

\* part_000:159-165: the record's key after Save's key block.
SaveKey(key, profileID, ip) ==
    IF key = "" THEN makeIPInfoKey(SaveProfileID(key, profileID), ip) ELSE key

\* ---- the state machine -----------------------------------------------
\* Every access to the record's fields in AddDomain, MostRecentDomain and
\* Save happens between info.Lock() and info.Unlock() of the one embedded
\* sync.Mutex, so each critical section is one atomic step: the step is the
\* Lock, the body and the Unlock.  Save's database write comes after its
\* Unlock and is a step of its own.

IPInfoInit ==
    /\ IP = "1.2.3.4"
    /\ ProfileID \in {"", "profileA"}
    /\ ResolvedDomains = <<>>
    /\ dbKey = ""
    /\ metaExpires = 0
    /\ pc = [t \in Threads |-> "idle"]
    /\ ret = Nil
    /\ store = <<>>
    /\ now = 1700000000
    /\ addLog = <<>>

\* part_000:94-108
AddDomain(t, resolved) ==
    /\ pc[t] = "idle"
    /\ Len(addLog) < MaxAdds
    /\ ResolvedDomains' = AddDomainSeq(ResolvedDomains, resolved)
    /\ addLog' = Append(addLog, resolved)
    /\ UNCHANGED <<IP, ProfileID, dbKey, metaExpires, pc, ret, store, now>>

\* part_000:111-121
MostRecentDomain(t) ==
    /\ pc[t] = "idle"
    /\ ret' = MostRecentOf(ResolvedDomains)
    /\ UNCHANGED <<IP, ProfileID, ResolvedDomains, dbKey, metaExpires, pc,
                   store, now, addLog>>

\* part_000:155-178: Lock, key, expiry, Unlock.  UpdateMeta (line 174) writes
\* only the record's Created/Modified stamps, which nothing here reads.
SaveLocked(t) ==
    /\ pc[t] = "idle"
    /\ ProfileID' = SaveProfileID(dbKey, ProfileID)
    /\ dbKey' = SaveKey(dbKey, ProfileID, IP)
    /\ metaExpires' = SaveExpiry(ResolvedDomains)
    /\ pc' = [pc EXCEPT ![t] = "Put"]
    /\ UNCHANGED <<IP, ResolvedDomains, ret, store, now, addLog>>

\* The record as the database reads it during Put.
RecordSnapshot ==
    [IP |-> IP, ProfileID |-> ProfileID, ResolvedDomains |-> ResolvedDomains,
     Expires |-> metaExpires]

\* part_000:180: ipInfoDatabase.Put(info), after the lock was released.
SavePut(t) ==
    /\ pc[t] = "Put"
    /\ store' = [k \in DOMAIN store \cup {dbKey} |->
                    IF k = dbKey THEN RecordSnapshot ELSE store[k]]
    /\ pc' = [pc EXCEPT ![t] = "idle"]
    /\ UNCHANGED <<IP, ProfileID, ResolvedDomains, dbKey, metaExpires, ret,
                   now, addLog>>

\* The wall clock (Unix seconds) moves on.
Tick ==
    /\ \E n \in {1700000000, 1700150000} : n > now /\ now' = n
    /\ UNCHANGED <<IP, ProfileID, ResolvedDomains, dbKey, metaExpires, pc,
                   ret, store, addLog>>

IPInfoNext ==
    \/ \E t \in Threads, r \in ResolvedInputs : AddDomain(t, r)
    \/ \E t \in Threads : MostRecentDomain(t)
    \/ \E t \in Threads : SaveLocked(t)
    \/ \E t \in Threads : SavePut(t)
    \/ Tick

\* ---- the record's key when its fields are reassigned -------------------
\* IP and ProfileID are exported fields (part_000:82, 85): the owner of the
\* record may assign them between calls.

\* info.IP = ip
SetIP(ip) ==
    /\ ip # IP
    /\ IP' = ip
    /\ UNCHANGED <<ProfileID, ResolvedDomains, dbKey, metaExpires, pc, ret,
                   store, now, addLog>>

\* info.ProfileID = profileID
SetProfileID(profileID) ==
    /\ profileID # ProfileID
    /\ ProfileID' = profileID
    /\ UNCHANGED <<IP, ResolvedDomains, dbKey, metaExpires, pc, ret, store,
                   now, addLog>>

\* AddDomain is called with a few of its arguments only here.
IPInfoKeyNext ==
    \/ \E t \in Threads :
         \E r \in {x \in ResolvedInputs : x.Domain = "a.com" /\ x.Expires # 50} :
            AddDomain(t, r)
    \/ \E t \in Threads : SaveLocked(t)
    \/ \E t \in Threads : SavePut(t)
    \/ \E ip \in {"1.2.3.4", "2001:db8::1"} : SetIP(ip)
    \/ \E profileID \in {"", "profileA", "profileB"} : SetProfileID(profileID)

\* ---- GetIPInfo ----------------------------------------------------------

VARIABLES
    getDB,    \* ipInfoDatabase as GetIPInfo reads it: key -> what is stored
    getCall   \* the GetIPInfo call in progress or last returned

getVars == <<getDB, getCall>>

\* database.ErrNotFound, as ipInfoDatabase.Get returns it.
GetErrNotFound == "database: entry not found"
\* The error of record.Unwrap on a payload that does not decode.
GetErrUnwrap == "failed to unwrap record"
\* part_000:149
GetErrNotIPInfo == "record not of type *IPInfo, but *OtherRecord"

GetProfileIDs == {"", "profileA"}
GetIPs == {"1.2.3.4", "2001:db8::1"}

\* What the database may hold under a key: nothing; a wrapped record whose
\* payload decodes into an IPInfo; a wrapped record whose payload does not;
\* an *IPInfo; a record of another type.
StoredForms == {"absent", "wrapped", "wrapped-garbled", "IPInfo", "other"}

\* ipInfoDatabase.Get(key): the error and the record handed back.  The
\* record carries the key it is stored under.
DatabaseGet(db, key) ==
    IF db[key] = "absent"
    THEN [err |-> GetErrNotFound, r |-> Nil]
    ELSE [err |-> NoError, r |-> Ptr([form |-> db[key], key |-> key])]

\* A slip GetIPInfo could make: hand back whatever the store returned.
GetIPInfoResult_NoTypeCheck(got) ==
    IF got.err # NoError THEN [info |-> Nil, err |-> got.err, allocated |-> FALSE]
    ELSE [info |-> Ptr([key |-> got.r[1].key]), err |-> NoError,
          allocated |-> FALSE]

\* part_000:130-151: GetIPInfo after the Get.  `allocated` tells a newly
\* allocated IPInfo (the unwrap) from the stored record itself.
GetIPInfoResult(got) ==
    IF got.err # NoError THEN [info |-> Nil, err |-> got.err, allocated |-> FALSE]
    ELSE LET r == got.r[1]
         IN  IF r.form \in {"wrapped", "wrapped-garbled"}
             THEN IF r.form = "wrapped-garbled"
                  THEN [info |-> Nil, err |-> GetErrUnwrap, allocated |-> FALSE]
                  ELSE [info |-> Ptr([key |-> r.key]), err |-> NoError,
                        allocated |-> TRUE]
             ELSE IF r.form # "IPInfo"
                  THEN [info |-> Nil, err |-> GetErrNotIPInfo,
                        allocated |-> FALSE]
                  ELSE [info |-> Ptr([key |-> r.key]), err |-> NoError,
                        allocated |-> FALSE]

NoGetCall == [pc |-> "idle"]

GetInit ==
    /\ getDB \in [{makeIPInfoKey(p, i) : p \in GetProfileIDs, i \in GetIPs} -> StoredForms]
    /\ getCall = NoGetCall

GetParked ==
    /\ getDB = [k \in {makeIPInfoKey(p, i) : p \in GetProfileIDs, i \in GetIPs} |-> "absent"]
    /\ getCall = NoGetCall

\* part_000:128-152
GetIPInfo(profileID, ip) ==
    /\ getCall.pc = "idle"
    /\ LET key == makeIPInfoKey(profileID, ip)
           res == GetIPInfoResult(DatabaseGet(getDB, key))
       IN  getCall' = [pc |-> "returned", profileID |-> profileID, ip |-> ip,
                       asked |-> key, info |-> res.info, err |-> res.err,
                       allocated |-> res.allocated]
    /\ UNCHANGED getDB

\* The caller takes the result.
GetIPInfoReturn ==
    /\ getCall.pc = "returned"
    /\ getCall' = NoGetCall
    /\ UNCHANGED getDB

GetNext ==
    \/ \E profileID \in GetProfileIDs, ip \in GetIPs : GetIPInfo(profileID, ip)
    \/ GetIPInfoReturn

(***************************************************************************)
(*        Go's strings and net packages, as package filterlists uses them  *)
(***************************************************************************)

\* s[i], counted from 1.
At(s, i) == SubSeq(s, i, i)

\* s[i:], counted from 0 as in Go.
From(s, i) == SubSeq(s, i + 1, Len(s))

UpperLetters == "ABCDEFGHIJKLMNOPQRSTUVWXYZ"
LowerLetters == "abcdefghijklmnopqrstuvwxyz"
DecDigits == "0123456789"
HexDigitsLower == "0123456789abcdef"
HexDigitsUpper == "0123456789ABCDEF"

\* The position of character ch in alphabet, 0 if it is not in it.
IndexIn(alphabet, ch) ==
    LET S == {i \in 1..Len(alphabet) : At(alphabet, i) = ch}
    IN  IF S = {} THEN 0 ELSE CHOOSE i \in S : TRUE

\* unicode.ToLower on one ASCII character.
LowerChar(ch) ==
    LET i == IndexIn(UpperLetters, ch)
    IN  IF i = 0 THEN ch ELSE At(LowerLetters, i)

\* strings.ToLower (serve.go:218) on an ASCII string.
RECURSIVE ToLower(_)
ToLower(s) == IF s = "" THEN "" ELSE LowerChar(Head(s)) \o ToLower(Tail(s))

\* A nil net.IP.
NilIP == <<>>

Zeros(n) == [i \in 1..n |-> 0]

\* net.v4InV6Prefix
v4InV6Prefix == <<0, 0, 0, 0, 0, 0, 0, 0, 0, 0, 255, 255>>

\* net.IPv4(a, b, c, d): the 16-byte form of an IPv4 address.
IPv4(a, b, c, d) == v4InV6Prefix \o <<a, b, c, d>>

\* net.IP.To4 (serve.go:236, 264): the 4-byte form, or nil.
To4(ip) ==
    IF Len(ip) = 4 THEN ip
    ELSE IF Len(ip) = 16 /\ SubSeq(ip, 1, 12) = v4InV6Prefix
         THEN SubSeq(ip, 13, 16)
         ELSE NilIP

\* net.IP.To16 (serve.go:281): the 16-byte form, or nil.
To16(ip) ==
    IF Len(ip) = 4 THEN IPv4(ip[1], ip[2], ip[3], ip[4])
    ELSE IF Len(ip) = 16 THEN ip
         ELSE NilIP

\* net.appendHex: v in lower-case hex without leading zeros.
RECURSIVE Hex(_)
Hex(v) ==
    IF v < 16 THEN At(HexDigitsLower, v + 1)
    ELSE Hex(v \div 16) \o At(HexDigitsLower, (v % 16) + 1)

\* net.hexString: two hex digits per byte.
RECURSIVE hexString(_)
hexString(b) ==
    IF b = <<>> THEN ""
    ELSE At(HexDigitsLower, (Head(b) \div 16) + 1)
         \o At(HexDigitsLower, (Head(b) % 16) + 1) \o hexString(Tail(b))

\* The eight 16-bit groups of a 16-byte address, indexed from 0.
Groups(ip) == [k \in 0..7 |-> ip[2 * k + 1] * 256 + ip[2 * k + 2]]

\* The end of the run of zero groups that starts at group i.
RECURSIVE ZeroRunEnd(_, _)
ZeroRunEnd(g, i) == IF i < 8 /\ g[i] = 0 THEN ZeroRunEnd(g, i + 1) ELSE i

\* IP.String's search for the longest run of zero groups: <<e0, e1>>.
RECURSIVE LongestZeroRun(_, _, _, _)
LongestZeroRun(g, i, e0, e1) ==
    IF i >= 8 THEN <<e0, e1>>
    ELSE LET j == ZeroRunEnd(g, i)
         IN  IF j > i /\ j - i > e1 - e0
             THEN LongestZeroRun(g, j + 1, i, j)
             ELSE LongestZeroRun(g, i + 1, e0, e1)

\* IP.String's printing loop, from group i on.
RECURSIVE PrintGroups(_, _, _, _)
PrintGroups(g, i, e0, e1) ==
    IF i >= 8 THEN ""
    ELSE IF i = e0
         THEN "::" \o (IF e1 >= 8 THEN ""
                       ELSE Hex(g[e1]) \o PrintGroups(g, e1 + 1, e0, e1))
         ELSE (IF i > 0 THEN ":" ELSE "") \o Hex(g[i])
              \o PrintGroups(g, i + 1, e0, e1)

\* net.IP.String (serve.go:269, 286).
IPString(ip) ==
    IF Len(ip) = 0 THEN "<nil>"
    ELSE IF Len(To4(ip)) = 4
         THEN LET p == To4(ip)
              IN  ToString(p[1]) \o "." \o ToString(p[2]) \o "."
                  \o ToString(p[3]) \o "." \o ToString(p[4])
    ELSE IF Len(ip) # 16 THEN "?" \o hexString(ip)
    ELSE LET g == Groups(ip)
             e == LongestZeroRun(g, 0, -1, -1)
             \* "::" is not used to shorten just one zero group.
             e0 == IF e[2] - e[1] <= 1 THEN -1 ELSE e[1]
             e1 == IF e[2] - e[1] <= 1 THEN -1 ELSE e[2]
         IN  PrintGroups(g, 0, e0, e1)

\* net.dtoi: the decimal number s starts with: its value n, the characters
\* used i, and ok (false on none, or on a value of 0xFFFFFF and more).
RECURSIVE dtoiFrom(_, _, _)
dtoiFrom(s, n, i) ==
    IF s = "" \/ IndexIn(DecDigits, Head(s)) = 0
    THEN [n |-> n, i |-> i, ok |-> i > 0]
    ELSE LET n2 == n * 10 + (IndexIn(DecDigits, Head(s)) - 1)
         IN  IF n2 >= 16777215 THEN [n |-> 16777215, i |-> i, ok |-> FALSE]
             ELSE dtoiFrom(Tail(s), n2, i + 1)
dtoi(s) == dtoiFrom(s, 0, 0)

\* The value of a hexadecimal digit, -1 for any other character.
HexVal(ch) ==
    IF IndexIn(HexDigitsLower, ch) # 0 THEN IndexIn(HexDigitsLower, ch) - 1
    ELSE IF IndexIn(HexDigitsUpper, ch) # 0 THEN IndexIn(HexDigitsUpper, ch) - 1
    ELSE -1

\* net.xtoi: as dtoi, for a hexadecimal number.
RECURSIVE xtoiFrom(_, _, _)
xtoiFrom(s, n, i) ==
    IF s = "" \/ HexVal(Head(s)) < 0
    THEN [n |-> n, i |-> i, ok |-> i > 0]
    ELSE LET n2 == n * 16 + HexVal(Head(s))
         IN  IF n2 >= 16777215 THEN [n |-> 0, i |-> i, ok |-> FALSE]
             ELSE xtoiFrom(Tail(s), n2, i + 1)
xtoi(s) == xtoiFrom(s, 0, 0)

\* net.parseIPv4's loop: s is the rest of the text, p the octets so far.
RECURSIVE parseIPv4From(_, _)
parseIPv4From(s, p) ==
    IF Len(p) = 4
    THEN IF Len(s) # 0 THEN NilIP ELSE IPv4(p[1], p[2], p[3], p[4])
    ELSE IF Len(s) = 0 THEN NilIP
    ELSE IF Len(p) > 0 /\ Head(s) # "." THEN NilIP
    ELSE LET s1 == IF Len(p) > 0 THEN Tail(s) ELSE s
             d == dtoi(s1)
         IN  IF ~d.ok \/ d.n > 255 THEN NilIP
             \* components with leading zeros are rejected
             ELSE IF d.i > 1 /\ Head(s1) = "0" THEN NilIP
             ELSE parseIPv4From(From(s1, d.i), Append(p, d.n))
parseIPv4(s) == parseIPv4From(s, <<>>)

\* The end of net.parseIPv6: the whole text must be used, and an ellipsis
\* stands for at least one zero group.
parseIPv6Finish(s, ip, ellipsis) ==
    IF Len(s) # 0 THEN NilIP
    ELSE IF Len(ip) < 16
         THEN IF ellipsis < 0 THEN NilIP
              ELSE SubSeq(ip, 1, ellipsis) \o Zeros(16 - Len(ip))
                   \o SubSeq(ip, ellipsis + 1, Len(ip))
         ELSE IF ellipsis >= 0 THEN NilIP ELSE ip

\* net.parseIPv6's loop: ip holds the bytes parsed so far.
RECURSIVE parseIPv6Loop(_, _, _)
parseIPv6Loop(s, ip, ellipsis) ==
    IF Len(ip) >= 16 THEN parseIPv6Finish(s, ip, ellipsis)
    ELSE LET x == xtoi(s)
         IN  IF ~x.ok \/ x.n > 65535 THEN NilIP
             ELSE IF x.i < Len(s) /\ At(s, x.i + 1) = "."
             THEN \* a trailing IPv4 part
                  IF ellipsis < 0 /\ Len(ip) # 12 THEN NilIP
                  ELSE IF Len(ip) + 4 > 16 THEN NilIP
                  ELSE LET ip4 == parseIPv4(s)
                       IN  IF ip4 = NilIP THEN NilIP
                           ELSE parseIPv6Finish("", ip \o SubSeq(ip4, 13, 16),
                                                ellipsis)
             ELSE LET ip2 == ip \o <<x.n \div 256, x.n % 256>>
                      s1 == From(s, x.i)
                  IN  IF Len(s1) = 0 THEN parseIPv6Finish(s1, ip2, ellipsis)
                      ELSE IF Head(s1) # ":" \/ Len(s1) = 1 THEN NilIP
                      ELSE IF Head(Tail(s1)) = ":"
                      THEN IF ellipsis >= 0 THEN NilIP
                           ELSE IF Len(s1) = 2
                                THEN parseIPv6Finish("", ip2, Len(ip2))
                                ELSE parseIPv6Loop(From(s1, 2), ip2, Len(ip2))
                      ELSE parseIPv6Loop(Tail(s1), ip2, ellipsis)

\* net.parseIPv6
parseIPv6(s) ==
    IF Len(s) >= 2 /\ SubSeq(s, 1, 2) = "::"
    THEN IF Len(s) = 2 THEN Zeros(16) ELSE parseIPv6Loop(From(s, 2), <<>>, 0)
    ELSE parseIPv6Loop(s, <<>>, -1)

\* net.ParseIP (serve.go:246): the first '.' or ':' decides the family.
RECURSIVE ParseIPScan(_, _)
ParseIPScan(s, rest) ==
    IF rest = "" THEN NilIP
    ELSE IF Head(rest) = "." THEN parseIPv4(s)
    ELSE IF Head(rest) = ":" THEN parseIPv6(s)
    ELSE ParseIPScan(s, Tail(rest))
ParseIP(s) == ParseIPScan(s, s)

(***************************************************************************)
(*                         package filterlists                             *)
(***************************************************************************)

VARIABLES
    loaded,         \* what isLoaded() reports
    defaultFilter,  \* the pre-filter: the (entity, value) pairs it answers
                    \* true for
    lockWriter,     \* filterListLock is held for writing (a reload)
    lockReaders,    \* the lookups that hold filterListLock for reading
    call            \* per caller: the lookup it is inside, and its result

flVars == <<loaded, defaultFilter, lockWriter, lockReaders, call>>

\* The goroutines that call the Lookup* functions.
Callers == {1, 2}

\* database.ErrNotFound
ErrNotFound == "database: entry not found"
\* Any other error of the record store.
ErrStore == "database: storage failure"
\* serve.go:248, 266, 283
ErrInvalidIP == "invalid IP"
ErrInvalidIPv4 == "invalid IPv4"
ErrInvalidIPv6 == "invalid IPv6"
\* The run-time panic of domain[len(domain)-1] on an empty string.
PanicIndexOutOfRange == "panic: runtime error: index out of range [-1]"

\* The key of an entity record: "<prefix>/<EntityKind>/<normalizedValue>".
makeListCacheKey(entity, value) ==
    "cache:intel/filterlists/lists/" \o entity \o "/" \o value

\* The entity records in the cache database: key -> Sources.
EntityRecords ==
    (makeListCacheKey("domain", "example.com.") :> <<"TRAC", "MAL">>)
    @@ (makeListCacheKey("ipv4", "1.2.3.4") :> <<"TRAC">>)
    @@ (makeListCacheKey("ipv6", "2001:db8::1") :> <<>>)
    @@ (makeListCacheKey("country", "AT") :> <<"GEO">>)

\* The (entity, value) pairs that are on a list.
ListedPairs ==
    { <<"domain", "example.com.">>, <<"ipv4", "1.2.3.4">>,
      <<"ipv6", "2001:db8::1">>, <<"country", "AT">> }

\* The filters a reload may install: no false negatives, some false
\* positives.
FilterSnapshots ==
    { ListedPairs \cup {<<"domain", "a..">>, <<"asn", "13335">>},
      ListedPairs \cup {<<"ipv6", "1.2.3.4">>, <<"ipv4", "example">>} }

\* defaultFilter.test(entity, value)
FilterTest(filter, entity, value) == <<entity, value>> \in filter

\* getEntityRecordByKey(key): the store's answer.  `fails` is the store
\* being unavailable or corrupt at this moment.
getEntityRecordByKey(key, fails) ==
    IF fails THEN [err |-> ErrStore, Sources |-> <<>>]
    ELSE IF key \notin DOMAIN EntityRecords
         THEN [err |-> ErrNotFound, Sources |-> <<>>]
         ELSE [err |-> NoError, Sources |-> EntityRecords[key]]

\* ---- inputs ------------------------------------------------------------
DomainLookupInputs == {"", "Example.com", "example.com.", "a..", "B"}
IPStringInputs ==
    {"1.2.3.4", "::ffff:1.2.3.4", "2001:DB8:0:0:0:0:0:1", "2001:db8::1",
     "1.2.3", "example", ""}
IPInputs ==
    { NilIP, <<1, 2, 3, 4>>, IPv4(1, 2, 3, 4),
      <<32, 1, 13, 184, 0, 0, 0, 0, 0, 0, 0, 0, 0, 0, 0, 1>>, <<1, 2, 3>> }

\* ---- the entry points: what each hands to lookupBlockLists --------------
\* A request is the (entity, value) an entry point passes on, or the error
\* (or panic) it ends with before it gets that far.
Req(entity, value) == [err |-> NoError, entity |-> entity, value |-> value]
ReqFail(err) == [err |-> err, entity |-> "", value |-> ""]

\* A slip LookupDomain could make: forget to lower-case.
NormalizeDomain_NoLower(domain) ==
    IF At(domain, Len(domain)) # "." THEN domain \o "." ELSE domain

\* A slip LookupDomain could make: always append the '.'.
NormalizeDomain_AlwaysDot(domain) == ToLower(domain) \o "."

\* serve.go:218-221, for a non-empty domain.
NormalizeDomain(domain) ==
    LET d == ToLower(domain)
    IN  IF At(d, Len(d)) # "." THEN d \o "." ELSE d

\* serve.go:215-223.  Indexing the empty string at len-1 panics.
LookupDomainReq(domain) ==
    IF Len(ToLower(domain)) = 0 THEN ReqFail(PanicIndexOutOfRange)
    ELSE Req("domain", NormalizeDomain(domain))

\* serve.go:257-259
LookupIPv4StringReq(ipv4) == Req("ipv4", ipv4)

\* serve.go:262-270
LookupIPv4Req(ipv4) ==
    LET ip == To4(ipv4)
    IN  IF ip = NilIP THEN ReqFail(ErrInvalidIPv4)
        ELSE LookupIPv4StringReq(IPString(ip))

\* serve.go:275-277
LookupIPv6StringReq(ipv6) == Req("ipv6", ipv6)

\* serve.go:280-287
LookupIPv6Req(ipv6) ==
    LET ip == To16(ipv6)
    IN  IF ip = NilIP THEN ReqFail(ErrInvalidIPv6)
        ELSE LookupIPv6StringReq(IPString(ip))

\* serve.go:235-241
LookupIPReq(ip) ==
    IF To4(ip) = NilIP THEN LookupIPv6Req(ip) ELSE LookupIPv4Req(ip)

\* net.ParseIP on each input text, computed once.
ParsedIP == [s \in IPStringInputs |-> ParseIP(s)]

\* A slip LookupIPString could make: no check of the parse result.
LookupIPStringReq_NoCheck(ipStr) == LookupIPReq(ParsedIP[ipStr])

\* A slip LookupIPString could make: look the text up as it was given.
LookupIPStringReq_Verbatim(ipStr) ==
    LET ip == ParsedIP[ipStr]
    IN  IF ip = NilIP THEN ReqFail(ErrInvalidIP)
        ELSE IF To4(ip) = NilIP THEN LookupIPv6StringReq(ipStr)
        ELSE LookupIPv4StringReq(ipStr)

\* serve.go:245-252
LookupIPStringReq(ipStr) ==
    LET ip == ParsedIP[ipStr]
    IN  IF ip = NilIP THEN ReqFail(ErrInvalidIP) ELSE LookupIPReq(ip)

\* ---- lookupBlockLists ---------------------------------------------------
\* A caller's record.  isLoadedSeen, testCalls, storeCalls and got are
\* history fields: what isLoaded() answered ("-" when it was not asked), the
\* test calls made, the keys the store was asked for, the store's answers.
IdleCall ==
    [pc |-> "idle", entity |-> "", value |-> "", sources |-> <<>>,
     err |-> NoError, isLoadedSeen |-> "-", testCalls |-> <<>>,
     storeCalls |-> <<>>, got |-> <<>>]

\* The entry point ended before calling lookupBlockLists.
EntryFailed(err) == [IdleCall EXCEPT !.pc = "done", !.err = err]

\* A slip: no isLoaded() check.
lookupBlockListsEnter_NoLoadedCheck(entity, value, isLoaded) ==
    [IdleCall EXCEPT !.pc = "rlock", !.entity = entity, !.value = value,
                     !.isLoadedSeen = IF isLoaded THEN "true" ELSE "false"]

\* serve.go:174-182: return nil, nil when the lists are not loaded.
lookupBlockListsEnter(entity, value, isLoaded) ==
    IF ~isLoaded
    THEN [IdleCall EXCEPT !.pc = "done", !.entity = entity, !.value = value,
                          !.isLoadedSeen = "false"]
    ELSE [IdleCall EXCEPT !.pc = "rlock", !.entity = entity,
                          !.value = value, !.isLoadedSeen = "true"]

\* A slip: the test's answer is ignored.
lookupBlockListsTest_Ignored(c, passed) ==
    [c EXCEPT !.pc = "query",
              !.testCalls = Append(@, <<c.entity, c.value, passed>>)]

\* serve.go:187-189: return nil, nil when the filter's test fails.
lookupBlockListsTest(c, passed) ==
    IF ~passed
    THEN [c EXCEPT !.pc = "done",
                   !.testCalls = Append(@, <<c.entity, c.value, passed>>)]
    ELSE [c EXCEPT !.pc = "query",
                   !.testCalls = Append(@, <<c.entity, c.value, passed>>)]

\* A slip: every store error is taken for "not found".
lookupResult_SwallowErrors(entry) ==
    IF entry.err # NoError THEN [sources |-> <<>>, err |-> NoError]
    ELSE [sources |-> entry.Sources, err |-> NoError]

\* A slip: ErrNotFound is passed on like any other error.
lookupResult_NotFoundIsError(entry) ==
    IF entry.err # NoError THEN [sources |-> <<>>, err |-> entry.err]
    ELSE [sources |-> entry.Sources, err |-> NoError]

\* serve.go:193-202: what lookupBlockLists returns for the store's answer.
lookupResult(entry) ==
    IF entry.err # NoError
    THEN IF entry.err = ErrNotFound
         THEN [sources |-> <<>>, err |-> NoError]
         ELSE [sources |-> <<>>, err |-> entry.err]
    ELSE [sources |-> entry.Sources, err |-> NoError]

\* ---- the state machine ----------------------------------------------------

FilterListsInit ==
    /\ loaded = FALSE
    /\ defaultFilter = {}
    /\ lockWriter = FALSE
    /\ lockReaders = {}
    /\ call = [c \in Callers |-> IdleCall]

\* An entry point runs up to lookupBlockLists' isLoaded() check.
Begin(c, req) ==
    /\ call[c].pc = "idle"
    /\ call' = [call EXCEPT ![c] =
                  IF req.err # NoError THEN EntryFailed(req.err)
                  ELSE lookupBlockListsEnter(req.entity, req.value, loaded)]
    /\ UNCHANGED <<loaded, defaultFilter, lockWriter, lockReaders>>

LookupCountry(c, country) == Begin(c, Req("country", country))
LookupDomain(c, domain) == Begin(c, LookupDomainReq(domain))
LookupASNString(c, asn) == Begin(c, Req("asn", asn))
LookupIP(c, ip) == Begin(c, LookupIPReq(ip))
LookupIPString(c, ipStr) == Begin(c, LookupIPStringReq(ipStr))
LookupIPv4String(c, ipv4) == Begin(c, LookupIPv4StringReq(ipv4))
LookupIPv4(c, ipv4) == Begin(c, LookupIPv4Req(ipv4))
LookupIPv6String(c, ipv6) == Begin(c, LookupIPv6StringReq(ipv6))
LookupIPv6(c, ipv6) == Begin(c, LookupIPv6Req(ipv6))

\* A slip: the test is reached without the read lock.
RLock_NotTaken(c) ==
    /\ call[c].pc = "rlock"
    /\ call' = [call EXCEPT ![c].pc = "test"]
    /\ UNCHANGED <<loaded, defaultFilter, lockWriter, lockReaders>>

\* serve.go:184: filterListLock.RLock(), which waits while a reload holds
\* the lock for writing.
RLock(c) ==
    /\ call[c].pc = "rlock"
    /\ ~lockWriter
    /\ lockReaders' = lockReaders \cup {c}
    /\ call' = [call EXCEPT ![c].pc = "test"]
    /\ UNCHANGED <<loaded, defaultFilter, lockWriter>>

\* serve.go:187-189: defaultFilter.test; on false, return (the deferred
\* RUnlock runs).
Test(c) ==
    /\ call[c].pc = "test"
    /\ LET after == lookupBlockListsTest(
                       call[c],
                       FilterTest(defaultFilter, call[c].entity, call[c].value))
       IN  /\ call' = [call EXCEPT ![c] = after]
           /\ lockReaders' = IF after.pc = "done" THEN lockReaders \ {c}
                             ELSE lockReaders
    /\ UNCHANGED <<loaded, defaultFilter, lockWriter>>

\* serve.go:191-203: the store query and the return (the deferred RUnlock
\* runs).
Query(c) ==
    /\ call[c].pc = "query"
    /\ \E fails \in BOOLEAN :
         LET key == makeListCacheKey(call[c].entity, call[c].value)
             entry == getEntityRecordByKey(key, fails)
             res == lookupResult(entry)
         IN  call' = [call EXCEPT ![c] =
                        [@ EXCEPT !.pc = "done", !.sources = res.sources,
                                  !.err = res.err,
                                  !.storeCalls = Append(@, key),
                                  !.got = <<entry>>]]
    /\ lockReaders' = lockReaders \ {c}
    /\ UNCHANGED <<loaded, defaultFilter, lockWriter>>

\* The caller takes the result.
Return(c) ==
    /\ call[c].pc = "done"
    /\ call' = [call EXCEPT ![c] = IdleCall]
    /\ UNCHANGED <<loaded, defaultFilter, lockWriter, lockReaders>>

\* A reload takes filterListLock for writing ...
ReloadLock ==
    /\ ~lockWriter
    /\ lockReaders = {}
    /\ lockWriter' = TRUE
    /\ UNCHANGED <<loaded, defaultFilter, lockReaders, call>>

\* ... swaps the filter, marks the lists loaded, and releases the lock.
ReloadSwap ==
    /\ lockWriter
    /\ \E f \in FilterSnapshots : defaultFilter' = f
    /\ loaded' = TRUE
    /\ lockWriter' = FALSE
    /\ UNCHANGED <<lockReaders, call>>

FilterListsNext ==
    \/ \E c \in Callers, x \in {"AT", "XX"} : LookupCountry(c, x)
    \/ \E c \in Callers, x \in DomainLookupInputs : LookupDomain(c, x)
    \/ \E c \in Callers, x \in {"13335", "64512"} : LookupASNString(c, x)
    \/ \E c \in Callers, x \in IPInputs : LookupIP(c, x)
    \/ \E c \in Callers, x \in IPStringInputs : LookupIPString(c, x)
    \/ \E c \in Callers, x \in IPStringInputs : LookupIPv4String(c, x)
    \/ \E c \in Callers, x \in IPInputs : LookupIPv4(c, x)
    \/ \E c \in Callers, x \in IPStringInputs : LookupIPv6String(c, x)
    \/ \E c \in Callers, x \in IPInputs : LookupIPv6(c, x)
    \/ \E c \in Callers : RLock(c)
    \/ \E c \in Callers : Test(c)
    \/ \E c \in Callers : Query(c)
    \/ \E c \in Callers : Return(c)
    \/ ReloadLock
    \/ ReloadSwap

(***************************************************************************)
(*            LookupDomain's normalization, run on its own                 *)
(***************************************************************************)

VARIABLES
    domA, domB,   \* two domain strings handed to LookupDomain
    keyA, keyB,   \* the value LookupDomain looks up for each
    rekeyA        \* the value LookupDomain looks up when handed keyA

domVars == <<domA, domB, keyA, keyB, rekeyA>>

\* LookupDomain was not called yet / panicked before any lookup.
NotRun == "<not run>"
Panicked == "<panic>"

\* All strings over a, A and '.' of length at most n.
RECURSIVE StringsUpTo(_)
StringsUpTo(n) ==
    IF n = 0 THEN {""}
    ELSE LET shorter == StringsUpTo(n - 1)
         IN  shorter \cup {s \o ch : s \in shorter, ch \in {"a", "A", "."}}

DomainInputs ==
    StringsUpTo(MaxDomainLen) \cup {"Example.com", "example.com.", "Example.COM"}

\* The value LookupDomain (serve.go:215-223) hands to lookupBlockLists.
DomainKey(domain) ==
    LET req == LookupDomainReq(domain)
    IN  IF req.err # NoError THEN Panicked ELSE req.value

DomainParked ==
    /\ domA = "" /\ domB = ""
    /\ keyA = NotRun /\ keyB = NotRun /\ rekeyA = NotRun

DomainInit ==
    /\ domA \in DomainInputs
    /\ domB \in DomainInputs
    /\ keyA = NotRun /\ keyB = NotRun /\ rekeyA = NotRun

LookupDomainA ==
    /\ keyA = NotRun
    /\ keyA' = DomainKey(domA)
    /\ UNCHANGED <<domA, domB, keyB, rekeyA>>

LookupDomainB ==
    /\ keyB = NotRun
    /\ keyB' = DomainKey(domB)
    /\ UNCHANGED <<domA, domB, keyA, rekeyA>>

\* The normalized value is handed to LookupDomain again.
LookupDomainAgain ==
    /\ keyA \notin {NotRun, Panicked}
    /\ rekeyA = NotRun
    /\ rekeyA' = DomainKey(keyA)
    /\ UNCHANGED <<domA, domB, keyA, keyB>>

DomainNext == LookupDomainA \/ LookupDomainB \/ LookupDomainAgain

(***************************************************************************)
(*                            package ui                                   *)
(***************************************************************************)

VARIABLES
    apps,      \* the apps cache: module name -> bundle, 0 = no entry
    appsLock,  \* appsLock: the handler holding it for writing (0 = none)
               \* and the handlers holding it for reading
    bundles,   \* the bundles OpenZip has returned so far, in order; a bundle
               \* is known by its position here, its value is its module
    handler    \* per handler goroutine: the request it serves

uiVars == <<apps, appsLock, bundles, handler>>

\* The goroutines that serve requests.
Handlers == {1, 2}

\* The modules requests name.
ModuleNames == {"assets", "base"}

\* net/http status codes.
StatusOK == 200
StatusBadRequest == 400
StatusNotFound == 404
StatusInternalServerError == 500

\* The routes of registerRoutes that lead to ServeBundle, by the default
\* module name they pass and the mux variables they bind; the last one is a
\* ServeBundle("") handler reached without a moduleName variable.
ServeRequests ==
    { [defaultModuleName |-> "assets", moduleName |-> Nil, resPath |-> <<p>>] :
        p \in {"app.js", "missing.js", "broken.bin", "LICENSE"} }
    \cup { [defaultModuleName |-> "", moduleName |-> <<"base">>, resPath |-> r] :
             r \in {Nil, <<"app.js">>, <<"missing.js">>, <<"broken.bin">>,
                    <<"dir/">>} }
    \cup { [defaultModuleName |-> "", moduleName |-> <<"assets">>,
            resPath |-> <<"dir/">>],
           [defaultModuleName |-> "", moduleName |-> Nil, resPath |-> Nil] }

\* What bundle.Open(path) gives in a bundle of the module: the zip of
\* "assets" has an index.html, the zip of "base" has none.
BundleOpen(module, path) ==
    CASE path = "app.js" -> "ok"
      [] path = "LICENSE" -> "ok"
      [] path = "broken.bin" -> "error"
      [] path = "index.html" /\ module = "assets" -> "ok"
      [] OTHER -> "notfound"

\* filepath.Ext: the suffix from the last '.' of the last path element.
RECURSIVE ExtFrom(_, _)
ExtFrom(path, i) ==
    IF i = 0 \/ At(path, i) = "/" THEN ""
    ELSE IF At(path, i) = "." THEN From(path, i - 1)
    ELSE ExtFrom(path, i - 1)

\* mime.TypeByExtension on the extensions of the model.
TypeByExtension(ext) ==
    CASE ext = ".html" -> "text/html; charset=utf-8"
      [] ext = ".js" -> "text/javascript; charset=utf-8"
      [] OTHER -> ""

\* serve.go:41-49: the module name, Nil when it is missing (400).
RequestModule(req) ==
    IF req.moduleName # Nil THEN req.moduleName
    ELSE IF req.defaultModuleName = "" THEN Nil
    ELSE <<req.defaultModuleName>>

\* serve.go:51-54; strings.HasSuffix(resPath, "/") is the test on the last
\* character.
RequestResPath(req) ==
    IF req.resPath = Nil THEN "index.html"
    ELSE LET resPath == req.resPath[1]
         IN  IF Len(resPath) >= 1 /\ At(resPath, Len(resPath)) = "/"
             THEN "index.html"
             ELSE resPath

\* A slip ServeFileFromBundle could make: no index.html fallback.
ServeOpen_NoFallback(module, path) ==
    LET first == BundleOpen(module, path)
    IN  IF first = "ok" THEN [status |-> 0, path |-> path, opened |-> <<path>>]
        ELSE IF first = "notfound"
        THEN [status |-> StatusNotFound, path |-> path, opened |-> <<>>]
        ELSE [status |-> StatusInternalServerError, path |-> path,
              opened |-> <<>>]

\* A slip ServeFileFromBundle could make: the content type of the path that
\* was asked for.
ServeOpen_KeepPath(module, path) ==
    LET first == BundleOpen(module, path)
    IN  IF first = "ok" THEN [status |-> 0, path |-> path, opened |-> <<path>>]
        ELSE IF first = "notfound"
        THEN IF BundleOpen(module, "index.html") # "ok"
             THEN [status |-> StatusNotFound, path |-> "index.html",
                   opened |-> <<>>]
             ELSE [status |-> 0, path |-> path, opened |-> <<"index.html">>]
        ELSE [status |-> StatusInternalServerError, path |-> path,
              opened |-> <<>>]

\* serve.go:97-115: the opens.  status 0 = a reader is open and the function
\* goes on; path is the local variable path afterwards; opened lists the
\* resources a reader was opened on.
ServeOpen(module, path) ==
    LET first == BundleOpen(module, path)
    IN  IF first = "ok" THEN [status |-> 0, path |-> path, opened |-> <<path>>]
        ELSE IF first = "notfound"
        THEN IF BundleOpen(module, "index.html") # "ok"
             THEN [status |-> StatusNotFound, path |-> "index.html",
                   opened |-> <<>>]
             ELSE [status |-> 0, path |-> "index.html",
                   opened |-> <<"index.html">>]
        ELSE [status |-> StatusInternalServerError, path |-> path,
              opened |-> <<>>]

\* serve.go:118-124: the response's Content-Type after the header block;
\* "" = none set.
ResponseContentType(preset, path) ==
    IF preset # "" THEN preset ELSE TypeByExtension(ExtFrom(path, Len(path)))

\* A handler between requests.
IdleHandler ==
    [pc |-> "idle", moduleName |-> "", resPath |-> "", bundle |-> 0,
     path |-> "", opened |-> <<>>, closed |-> 0, status |-> 0,
     contentType |-> "", preset |-> "", method |-> "", copied |-> FALSE]

UIInit ==
    /\ apps = [m \in ModuleNames |-> 0]
    /\ appsLock = [writer |-> 0, readers |-> {}]
    /\ bundles = <<>>
    /\ handler = [h \in Handlers |-> IdleHandler]

\* The handler ends the request with http.Error(w, ..., status).
HttpError(r, status) == [r EXCEPT !.pc = "done", !.status = status]

\* serve.go:41-54: module name and resource path of the request.
ServeBundleStart(h, req) ==
    /\ handler[h].pc = "idle"
    /\ handler' = [handler EXCEPT ![h] =
         IF RequestModule(req) = Nil
         THEN HttpError(IdleHandler, StatusBadRequest)
         ELSE [IdleHandler EXCEPT !.pc = "RLock",
                                  !.moduleName = RequestModule(req)[1],
                                  !.resPath = RequestResPath(req)]]
    /\ UNCHANGED <<apps, appsLock, bundles>>

\* serve.go:56
AppsRLock(h) ==
    /\ handler[h].pc = "RLock"
    /\ appsLock.writer = 0
    /\ appsLock' = [appsLock EXCEPT !.readers = @ \cup {h}]
    /\ handler' = [handler EXCEPT ![h].pc = "read"]
    /\ UNCHANGED <<apps, bundles>>

\* serve.go:57-62: read the cache, RUnlock; a hit goes to
\* ServeFileFromBundle.
AppsRead(h) ==
    /\ handler[h].pc = "read"
    /\ appsLock' = [appsLock EXCEPT !.readers = @ \ {h}]
    /\ handler' = [handler EXCEPT ![h] =
         IF apps[@.moduleName] # 0
         THEN [@ EXCEPT !.pc = "Open",
                        !.bundle = apps[handler[h].moduleName]]
         ELSE [@ EXCEPT !.pc = "GetFile"]]
    /\ UNCHANGED <<apps, bundles>>

\* serve.go:65-75: updates.GetFile, whose answer depends on what the update
\* system holds at that moment.
GetFile(h) ==
    /\ handler[h].pc = "GetFile"
    /\ \E answer \in {"ok", "notfound", "error"} :
         handler' = [handler EXCEPT ![h] =
            CASE answer = "ok" -> [@ EXCEPT !.pc = "OpenZip"]
              [] answer = "notfound" -> HttpError(@, StatusNotFound)
              [] OTHER -> HttpError(@, StatusInternalServerError)]
    /\ UNCHANGED <<apps, appsLock, bundles>>

\* serve.go:78-85: resources.OpenZip and the new BundleSequence.
OpenZip(h) ==
    /\ handler[h].pc = "OpenZip"
    /\ \E opens \in BOOLEAN :
         IF opens
         THEN /\ bundles' = Append(bundles, handler[h].moduleName)
              /\ handler' = [handler EXCEPT ![h].pc = "Lock",
                                            ![h].bundle = Len(bundles) + 1]
         ELSE /\ bundles' = bundles
              /\ handler' = [handler EXCEPT ![h] =
                                HttpError(@, StatusInternalServerError)]
    /\ UNCHANGED <<apps, appsLock>>

\* serve.go:86
AppsLock(h) ==
    /\ handler[h].pc = "Lock"
    /\ appsLock.writer = 0 /\ appsLock.readers = {}
    /\ appsLock' = [appsLock EXCEPT !.writer = h]
    /\ handler' = [handler EXCEPT ![h].pc = "write"]
    /\ UNCHANGED <<apps, bundles>>

\* serve.go:87-88: store the bundle, Unlock.
AppsWrite(h) ==
    /\ handler[h].pc = "write"
    /\ apps' = [apps EXCEPT ![handler[h].moduleName] = handler[h].bundle]
    /\ appsLock' = [appsLock EXCEPT !.writer = 0]
    /\ handler' = [handler EXCEPT ![h].pc = "Open"]
    /\ UNCHANGED bundles

\* serve.go:97-115: ServeFileFromBundle's opens.
ServeFileOpen(h) ==
    /\ handler[h].pc = "Open"
    /\ LET o == ServeOpen(bundles[handler[h].bundle], handler[h].resPath)
       IN  handler' = [handler EXCEPT ![h] =
              IF o.status # 0
              THEN [HttpError(@, o.status) EXCEPT !.path = o.path]
              ELSE [@ EXCEPT !.pc = "WriteHeader", !.path = o.path,
                             !.opened = o.opened]]
    /\ UNCHANGED <<apps, appsLock, bundles>>

\* serve.go:118-131, 139: content type, WriteHeader(200); a HEAD request
\* skips the copy and closes the reader.  preset is the Content-Type the
\* response carried before ("" = none).
ServeFileWriteHeader(h) ==
    /\ handler[h].pc = "WriteHeader"
    /\ \E preset \in {"", "application/octet-stream"},
          method \in {"GET", "HEAD"} :
         handler' = [handler EXCEPT ![h] =
            [@ EXCEPT !.preset = preset, !.method = method,
                      !.contentType =
                          ResponseContentType(preset, handler[h].path),
                      !.status = StatusOK,
                      !.pc = IF method # "HEAD" THEN "Copy" ELSE "done",
                      !.closed = IF method # "HEAD" THEN @ ELSE @ + 1]]
    /\ UNCHANGED <<apps, appsLock, bundles>>

\* serve.go:132-139: io.Copy; on an error return, else Close.
ServeFileCopy(h) ==
    /\ handler[h].pc = "Copy"
    /\ \E copyFails \in BOOLEAN :
         handler' = [handler EXCEPT ![h] =
            IF copyFails THEN [@ EXCEPT !.pc = "done"]
            ELSE [@ EXCEPT !.pc = "done", !.copied = TRUE,
                           !.closed = @ + 1]]
    /\ UNCHANGED <<apps, appsLock, bundles>>

\* The handler has returned and takes the next request.
ServeDone(h) ==
    /\ handler[h].pc = "done"
    /\ handler' = [handler EXCEPT ![h] = IdleHandler]
    /\ UNCHANGED <<apps, appsLock, bundles>>

UINext ==
    \/ \E h \in Handlers, req \in ServeRequests : ServeBundleStart(h, req)
    \/ \E h \in Handlers : AppsRLock(h)
    \/ \E h \in Handlers : AppsRead(h)
    \/ \E h \in Handlers : GetFile(h)
    \/ \E h \in Handlers : OpenZip(h)
    \/ \E h \in Handlers : AppsLock(h)
    \/ \E h \in Handlers : AppsWrite(h)
    \/ \E h \in Handlers : ServeFileOpen(h)
    \/ \E h \in Handlers : ServeFileWriteHeader(h)
    \/ \E h \in Handlers : ServeFileCopy(h)
    \/ \E h \in Handlers : ServeDone(h)

(***************************************************************************)
(*             The locks: who holds them, statement by statement           *)
(***************************************************************************)

VARIABLES
    mu,        \* the IPInfo's sync.Mutex: the goroutine holding it, 0 = free
    recOp,     \* per goroutine: the IPInfo method it runs and where it is
    rwLock,    \* filterListLock: writer holds it, a writer waits for it,
               \* the lookups holding it for reading
    lkCall,    \* per caller: where it is in lookupBlockLists
    reloadPc   \* where the reload is

lockVars == <<mu, recOp, rwLock, lkCall, reloadPc>>

LocksInit ==
    /\ mu = 0
    /\ recOp = [t \in Threads |-> [method |-> "", pc |-> "idle"]]
    /\ rwLock = [writer |-> FALSE, writerWaiting |-> FALSE, readers |-> {}]
    /\ lkCall = [c \in Callers |-> [pc |-> "idle", path |-> ""]]
    /\ reloadPc = "idle"

\* A goroutine calls a method of the record and reaches its info.Lock().
RecCall(t, method) ==
    /\ recOp[t].pc = "idle"
    /\ recOp' = [recOp EXCEPT ![t] = [method |-> method, pc |-> "Lock"]]
    /\ UNCHANGED <<mu, rwLock, lkCall, reloadPc>>

\* part_000:95, 112, 156, 185: info.Lock()
RecLock(t) ==
    /\ recOp[t].pc = "Lock"
    /\ mu = 0
    /\ mu' = t
    /\ recOp' = [recOp EXCEPT ![t].pc = "body"]
    /\ UNCHANGED <<rwLock, lkCall, reloadPc>>

\* part_000:98-107, 115-120, 158-176, 188: the method's body, up to its
\* return statement (AddDomain, MostRecentDomain on either branch, String)
\* or up to its Unlock statement (Save).
RecBody(t) ==
    /\ recOp[t].pc = "body"
    /\ recOp' = [recOp EXCEPT ![t].pc = "Unlock"]
    /\ UNCHANGED <<mu, rwLock, lkCall, reloadPc>>

\* A slip: the method goes on without releasing the mutex.
RecUnlock_Forgotten(t) ==
    /\ recOp[t].pc = "Unlock"
    /\ recOp' = [recOp EXCEPT ![t] =
                   IF recOp[t].method = "Save" THEN [@ EXCEPT !.pc = "Put"]
                   ELSE [method |-> "", pc |-> "returned"]]
    /\ UNCHANGED <<mu, rwLock, lkCall, reloadPc>>

\* part_000:96, 113, 186: the deferred info.Unlock(), after which the method
\* has returned; part_000:178: Save's info.Unlock(), after which the Put
\* follows.
RecUnlock(t) ==
    /\ recOp[t].pc = "Unlock"
    /\ mu' = 0
    /\ recOp' = [recOp EXCEPT ![t] =
                   IF recOp[t].method = "Save" THEN [@ EXCEPT !.pc = "Put"]
                   ELSE [method |-> "", pc |-> "returned"]]
    /\ UNCHANGED <<rwLock, lkCall, reloadPc>>

\* part_000:180: ipInfoDatabase.Put(info) returns.
RecPut(t) ==
    /\ recOp[t].pc = "Put"
    /\ recOp' = [recOp EXCEPT ![t] = [method |-> "", pc |-> "returned"]]
    /\ UNCHANGED <<mu, rwLock, lkCall, reloadPc>>

\* The caller goes on after the method returned.
RecReturn(t) ==
    /\ recOp[t].pc = "returned"
    /\ recOp' = [recOp EXCEPT ![t] = [method |-> "", pc |-> "idle"]]
    /\ UNCHANGED <<mu, rwLock, lkCall, reloadPc>>

\* serve.go:174-182: lookupBlockLists is called; when the lists are not
\* loaded it returns without touching the lock.
LkEnter(c) ==
    /\ lkCall[c].pc = "idle"
    /\ \E isLoaded \in BOOLEAN :
         lkCall' = [lkCall EXCEPT ![c] =
                      IF isLoaded THEN [pc |-> "RLock", path |-> ""]
                      ELSE [pc |-> "returned", path |-> ""]]
    /\ UNCHANGED <<mu, recOp, rwLock, reloadPc>>

\* serve.go:184: filterListLock.RLock().  A sync.RWMutex admits no new
\* reader while a writer holds the lock or waits for it.
LkRLock(c) ==
    /\ lkCall[c].pc = "RLock"
    /\ ~rwLock.writer /\ ~rwLock.writerWaiting
    /\ rwLock' = [rwLock EXCEPT !.readers = @ \cup {c}]
    /\ lkCall' = [lkCall EXCEPT ![c].pc = "test"]
    /\ UNCHANGED <<mu, recOp, reloadPc>>

\* serve.go:187-189: the filter's test; false leads to a return statement.
LkTest(c) ==
    /\ lkCall[c].pc = "test"
    /\ \E passed \in BOOLEAN :
         lkCall' = [lkCall EXCEPT ![c] =
                      IF passed THEN [pc |-> "query", path |-> ""]
                      ELSE [pc |-> "RUnlock", path |-> "test false"]]
    /\ UNCHANGED <<mu, recOp, rwLock, reloadPc>>

\* serve.go:191-202: the store call returns; each answer leads to a return
\* statement.
LkQuery(c) ==
    /\ lkCall[c].pc = "query"
    /\ \E path \in {"NotFound", "store error", "success"} :
         lkCall' = [lkCall EXCEPT ![c] = [pc |-> "RUnlock", path |-> path]]
    /\ UNCHANGED <<mu, recOp, rwLock, reloadPc>>

\* A slip: a return path that skips the RUnlock.
LkRUnlock_Skipped(c) ==
    /\ lkCall[c].pc = "RUnlock"
    /\ rwLock' = IF lkCall[c].path = "store error" THEN rwLock
                 ELSE [rwLock EXCEPT !.readers = @ \ {c}]
    /\ lkCall' = [lkCall EXCEPT ![c] = [pc |-> "returned", path |-> ""]]
    /\ UNCHANGED <<mu, recOp, reloadPc>>

\* serve.go:185: the deferred filterListLock.RUnlock(), run by every return
\* statement after the RLock.
LkRUnlock(c) ==
    /\ lkCall[c].pc = "RUnlock"
    /\ rwLock' = [rwLock EXCEPT !.readers = @ \ {c}]
    /\ lkCall' = [lkCall EXCEPT ![c] = [pc |-> "returned", path |-> ""]]
    /\ UNCHANGED <<mu, recOp, reloadPc>>

\* The caller goes on after lookupBlockLists returned.
LkReturn(c) ==
    /\ lkCall[c].pc = "returned"
    /\ lkCall' = [lkCall EXCEPT ![c] = [pc |-> "idle", path |-> ""]]
    /\ UNCHANGED <<mu, recOp, rwLock, reloadPc>>

\* A reload calls filterListLock.Lock(): from now on it waits for the lock.
ReloadCall ==
    /\ reloadPc = "idle"
    /\ reloadPc' = "Lock"
    /\ rwLock' = [rwLock EXCEPT !.writerWaiting = TRUE]
    /\ UNCHANGED <<mu, recOp, lkCall>>

\* The reload gets the write side once the readers have left.
ReloadAcquire ==
    /\ reloadPc = "Lock"
    /\ rwLock.readers = {}
    /\ rwLock' = [rwLock EXCEPT !.writer = TRUE, !.writerWaiting = FALSE]
    /\ reloadPc' = "swap"
    /\ UNCHANGED <<mu, recOp, lkCall>>

\* The reload swaps the filter and unlocks.
ReloadRelease ==
    /\ reloadPc = "swap"
    /\ rwLock' = [rwLock EXCEPT !.writer = FALSE]
    /\ reloadPc' = "idle"
    /\ UNCHANGED <<mu, recOp, lkCall>>

LocksNext ==
    \/ \E t \in Threads :
         \E method \in {"AddDomain", "MostRecentDomain", "Save", "String"} :
            RecCall(t, method)
    \/ \E t \in Threads : RecLock(t)
    \/ \E t \in Threads : RecBody(t)
    \/ \E t \in Threads : RecUnlock(t)
    \/ \E t \in Threads : RecPut(t)
    \/ \E t \in Threads : RecReturn(t)
    \/ \E c \in Callers : LkEnter(c)
    \/ \E c \in Callers : LkRLock(c)
    \/ \E c \in Callers : LkTest(c)
    \/ \E c \in Callers : LkQuery(c)
    \/ \E c \in Callers : LkRUnlock(c)
    \/ \E c \in Callers : LkReturn(c)
    \/ ReloadCall
    \/ ReloadAcquire
    \/ ReloadRelease

(***************************************************************************)
(*                         The specifications                              *)
(***************************************************************************)

vars == <<ipVars, getVars, flVars, domVars, uiVars, lockVars>>

\* The IPInfo record and its callers.
Init ==
    /\ IPInfoInit /\ GetParked /\ FilterListsInit /\ DomainParked
    /\ UIInit /\ LocksInit

Spec == Init /\ [][IPInfoNext /\ UNCHANGED <<getVars, flVars, domVars, uiVars, lockVars>>]_vars

\* The block list lookups, the reload and the record store.
SpecLookup == Init /\ [][FilterListsNext /\ UNCHANGED <<ipVars, getVars, domVars, uiVars, lockVars>>]_vars

\* The IPInfo record while its owner reassigns IP and ProfileID.
SpecKey == Init /\ [][IPInfoKeyNext /\ UNCHANGED <<getVars, flVars, domVars, uiVars, lockVars>>]_vars

\* GetIPInfo on every content of the database.
InitGet ==
    /\ IPInfoInit /\ GetInit /\ FilterListsInit /\ DomainParked
    /\ UIInit /\ LocksInit

SpecGet == InitGet /\ [][GetNext /\ UNCHANGED <<ipVars, flVars, domVars, uiVars, lockVars>>]_vars

\* The ui handlers and the apps cache.
SpecServe ==
    Init /\ [][UINext /\ UNCHANGED <<ipVars, getVars, flVars, domVars, lockVars>>]_vars

\* The locks.  A step of the lock machine leaves everything else alone.
LockStep(A) == A /\ UNCHANGED <<ipVars, getVars, flVars, domVars, uiVars>>

\* Scheduling: a goroutine that can take a step eventually takes it; store
\* calls return; a sync.Mutex hands the lock to a goroutine that keeps
\* waiting for it (starvation mode), so a waiter is not passed over forever.
LocksFairness ==
    /\ \A t \in Threads :
         /\ SF_vars(LockStep(RecLock(t)))
         /\ WF_vars(LockStep(RecBody(t)))
         /\ WF_vars(LockStep(RecUnlock(t)))
         /\ WF_vars(LockStep(RecPut(t)))
    /\ \A c \in Callers :
         /\ WF_vars(LockStep(LkTest(c)))
         /\ WF_vars(LockStep(LkQuery(c)))
         /\ WF_vars(LockStep(LkRUnlock(c)))
    /\ WF_vars(LockStep(ReloadAcquire))
    /\ WF_vars(LockStep(ReloadRelease))

\* The record of the lock machine has no profile.
InitLocks == Init /\ ProfileID = ""

SpecLocks ==
    /\ InitLocks
    /\ [][LocksNext /\ UNCHANGED <<ipVars, getVars, flVars, domVars, uiVars>>]_vars
    /\ LocksFairness

\* LookupDomain's normalization on every short domain string.
InitDomain ==
    /\ IPInfoInit /\ GetParked /\ FilterListsInit /\ DomainInit
    /\ UIInit /\ LocksInit

SpecDomain == InitDomain /\ [][DomainNext /\ UNCHANGED <<ipVars, getVars, flVars, uiVars, lockVars>>]_vars

(***************************************************************************)
(*                 Properties of the IPInfo record                         *)
(***************************************************************************)

\* The position in addLog of the latest AddDomain call for domain d, 0 if none.
LastAddIndex(d) ==
    LET S == {i \in 1..Len(addLog) : addLog[i].Domain = d}
    IN  IF S = {} THEN 0 ELSE CHOOSE i \in S : \A j \in S : j <= i

\* The largest Expires among the entries of a non-empty history.
LargestExpires(rds) ==
    CHOOSE m \in {rds[i].Expires : i \in 1..Len(rds)} :
        \A i \in 1..Len(rds) : rds[i].Expires <= m

\* C1: starting from an empty history, after any sequence of AddDomain calls
\* the history holds at most one entry per Domain, every domain that was
\* added is present, and the entry of a domain is exactly the ResolvedDomain
\* (same CNAMEs, same Expires) of the latest AddDomain call for that domain.
C1_DedupKeepsLatest ==
    /\ \A i, j \in 1..Len(ResolvedDomains) :
          i # j => ResolvedDomains[i].Domain # ResolvedDomains[j].Domain
    /\ \A i \in 1..Len(ResolvedDomains) :
          /\ LastAddIndex(ResolvedDomains[i].Domain) # 0
          /\ ResolvedDomains[i] = addLog[LastAddIndex(ResolvedDomains[i].Domain)]
    /\ \A k \in 1..Len(addLog) :
          \E i \in 1..Len(ResolvedDomains) :
              ResolvedDomains[i].Domain = addLog[k].Domain

\* C1's case: a domain was added twice with different data, another domain in
\* between, and the history holds two entries.
C1_Witness ==
    /\ Len(addLog) = 3
    /\ addLog[1].Domain = addLog[3].Domain
    /\ addLog[1] # addLog[3]
    /\ addLog[2].Domain # addLog[1].Domain
    /\ Len(ResolvedDomains) = 2

\* The spec's scenario: a.com(T1), b.com(T2 > T1), a.com(T3 > T2).
ScenarioLog ==
    << [Domain |-> "a.com", CNAMEs |-> <<>>, Expires |-> 50],
       [Domain |-> "b.com", CNAMEs |-> <<"cdn.example.net">>,
        Expires |-> 1700000100],
       [Domain |-> "a.com",
        CNAMEs |-> <<"cdn.example.net", "edge.example.org">>,
        Expires |-> 1700200000] >>

\* The history is ordered by the time each domain was last added.
HistoryInLastAddedOrder ==
    \A i, j \in 1..Len(ResolvedDomains) :
        i < j => LastAddIndex(ResolvedDomains[i].Domain)
                   < LastAddIndex(ResolvedDomains[j].Domain)

\* After the scenario's three calls the history is [b.com, a.com(T3)].
ScenarioHistory ==
    addLog = ScenarioLog
        => ResolvedDomains = <<ScenarioLog[2], ScenarioLog[3]>>

\* A MostRecentDomain call returns the argument of the latest AddDomain call,
\* or nothing when there was none.
MostRecentIsLatestAdd ==
    \A t \in Threads :
        MostRecentDomain(t)
            => ret' = IF addLog = <<>> THEN Nil ELSE Ptr(addLog[Len(addLog)])

\* C2: the history is ordered by the time each domain was last added (most
\* recent last), MostRecentDomain returns the entry of the latest AddDomain
\* call, or none on an empty history; a.com(T1), b.com(T2), a.com(T3) gives
\* [b.com, a.com] and MostRecentDomain = a.com with Expires T3.
C2_RecencyOrder ==
    /\ [](HistoryInLastAddedOrder /\ ScenarioHistory)
    /\ [][MostRecentIsLatestAdd]_vars

\* C2's case: the scenario ran and MostRecentDomain returned a.com with T3.
C2_Witness ==
    /\ addLog = ScenarioLog
    /\ ResolvedDomains = <<ScenarioLog[2], ScenarioLog[3]>>
    /\ ret = Ptr(ScenarioLog[3])

\* C3, as the spec states it: the absolute expiry Save sets is at least
\* now + 86400 + 3600, whatever the history holds.
C3_ExpiryFloorFromNow ==
    [][\A t \in Threads :
          SaveLocked(t) => metaExpires' >= now + MinTTL + ExpiryBuffer]_vars

\* C4: when some entry's Expires is beyond now + 86400, the absolute expiry
\* Save sets is the largest Expires of the history plus 3600 (and so never
\* smaller); expiries {now+100, now+200000} give now + 200000 + 3600.
C4_ExpiryFollowsLargest ==
    [][\A t \in Threads :
          (/\ SaveLocked(t)
           /\ \E i \in 1..Len(ResolvedDomains) :
                 ResolvedDomains[i].Expires > now + MinTTL)
          => metaExpires' = LargestExpires(ResolvedDomains) + ExpiryBuffer]_vars

\* C4's case: Save ran at now on a history with expiries now+100 and
\* now+200000 and set now + 200000 + 3600.
C4_Witness ==
    /\ \E t \in Threads : pc[t] = "Put"
    /\ {ResolvedDomains[i].Expires : i \in 1..Len(ResolvedDomains)}
          = {now + 100, now + 200000}
    /\ metaExpires = now + 200000 + 3600

(***************************************************************************)
(*                 Properties of the block list lookups                    *)
(***************************************************************************)

\* The errors an entry point ends with before it reaches lookupBlockLists.
EntryErrors ==
    {ErrInvalidIP, ErrInvalidIPv4, ErrInvalidIPv6, PanicIndexOutOfRange}

\* The lookup consulted nothing: not the loaded flag, the filter or the store.
ConsultedNothing(r) ==
    r.isLoadedSeen = "-" /\ r.testCalls = <<>> /\ r.storeCalls = <<>>

\* The lookup returned an empty source set and no error.
ReturnedNothing(r) == r.pc = "done" /\ r.sources = <<>> /\ r.err = NoError

\* A lookup that saw isLoaded() = false has returned no sources and no error
\* and called neither the filter's test nor the store.
NotLoadedReturnsNothing ==
    \A c \in Callers :
        call[c].isLoadedSeen = "false"
            => /\ ReturnedNothing(call[c])
               /\ call[c].testCalls = <<>>
               /\ call[c].storeCalls = <<>>

\* While the lists are not loaded, every entry point call whose value passes
\* normalization gets as far as the isLoaded() check, and ends there.
NotLoadedEndsAtCheck ==
    \A c \in Callers :
        (~loaded /\ call[c].pc = "idle" /\ call'[c].pc # "idle")
            => /\ call'[c].pc = "done"
               /\ call'[c].err \notin EntryErrors
                    => call'[c].isLoadedSeen = "false"

\* C5: while isLoaded() is false every lookup entry point, for every entity
\* kind and every value that passes normalization, returns an empty source
\* set and no error, without calling the filter's test or the record store.
C5_NotLoadedFailsOpen ==
    []NotLoadedReturnsNothing /\ [][NotLoadedEndsAtCheck]_vars

\* C5's case: the lists are not loaded and two lookups of different kinds
\* have returned.
C5_Witness ==
    /\ ~loaded
    /\ call[1].pc = "done" /\ call[1].isLoadedSeen = "false"
    /\ call[1].entity = "domain" /\ call[1].value = "example.com."
    /\ call[2].pc = "done" /\ call[2].isLoadedSeen = "false"
    /\ call[2].entity = "ipv6"

\* C6: the record store is queried only after isLoaded() was seen true and
\* the filter's test returned true for the same (entity, value), whose key is
\* the one queried; when test returns false the lookup returns an empty
\* source set and no error and makes no store access.
C6_StoreOnlyAfterTest ==
    \A c \in Callers :
        LET r == call[c]
        IN  /\ (r.storeCalls # <<>> \/ r.pc = "query")
                 => /\ r.isLoadedSeen = "true"
                    /\ r.testCalls = << <<r.entity, r.value, TRUE>> >>
            /\ r.storeCalls # <<>>
                 => r.storeCalls = << makeListCacheKey(r.entity, r.value) >>
            /\ (r.testCalls # <<>> /\ ~r.testCalls[1][3])
                 => ReturnedNothing(r) /\ r.storeCalls = <<>>

\* C6's case: one lookup ended on a false test, another queried the store.
C6_Witness ==
    /\ call[1].testCalls = << <<"ipv4", "1.2.3", FALSE>> >>
    /\ call[1].pc = "done"
    /\ call[2].storeCalls # <<>>
    /\ call[2].testCalls = << <<"ipv4", "1.2.3.4", TRUE>> >>

\* C7: when the store was queried, NotFound gives an empty source set and no
\* error, any other store error is returned as the lookup's error with no
\* sources, and success gives exactly the stored entry's Sources and no error.
C7_StoreAnswerHandling ==
    \A c \in Callers :
        LET r == call[c]
        IN  r.storeCalls # <<>>
              => /\ r.pc = "done"
                 /\ Len(r.got) = 1
                 /\ LET entry == r.got[1]
                        key == r.storeCalls[1]
                    IN  /\ entry.err = ErrNotFound
                             => r.sources = <<>> /\ r.err = NoError
                        /\ entry.err \notin {NoError, ErrNotFound}
                             => r.sources = <<>> /\ r.err = entry.err
                        /\ entry.err = NoError
                             => /\ key \in DOMAIN EntityRecords
                                /\ r.sources = EntityRecords[key]
                                /\ r.err = NoError

\* C7's case: one lookup got NotFound on a false positive of the filter,
\* another got a store failure.
C7_Witness ==
    /\ call[1].storeCalls # <<>>
    /\ call[1].got[1].err = ErrNotFound
    /\ call[1].err = NoError
    /\ call[2].storeCalls # <<>>
    /\ call[2].got[1].err = ErrStore
    /\ call[2].err = ErrStore

\* For each input text: whether it is a well-formed address (of a family),
\* and the canonical text of the address it denotes.
WellFormedIP == [s \in IPStringInputs |-> ParseIP(s) # NilIP]
WellFormedIPv4 ==
    [s \in IPStringInputs |-> ParseIP(s) # NilIP /\ To4(ParseIP(s)) # NilIP]
WellFormedIPv6 ==
    [s \in IPStringInputs |-> ParseIP(s) # NilIP /\ To4(ParseIP(s)) = NilIP]
CanonicalText ==
    [s \in IPStringInputs |->
        IF ParseIP(s) = NilIP THEN "" ELSE IPString(ParseIP(s))]

\* The call ended with an invalid-address error before anything was consulted.
RejectedAsInvalid(r) ==
    /\ r.pc = "done"
    /\ r.err \in {ErrInvalidIP, ErrInvalidIPv4, ErrInvalidIPv6}
    /\ ConsultedNothing(r)

\* The call went on to look up the canonical text of the address s denotes.
LooksUpCanonical(r, s) ==
    /\ r.err \notin EntryErrors
    /\ r.value = CanonicalText[s]

\* The step is caller c beginning a lookup.
Begins(c) == call[c].pc = "idle" /\ call'[c].pc # "idle"

\* C8, as the spec states it: LookupIPv4String, LookupIPv6String and
\* LookupIPString reject every text that is not a well-formed address of the
\* expected family before anything is consulted, and look a well-formed one
\* up under its canonical text.
C8_StringLookupsValidate ==
    [][\A c \in Callers : Begins(c) => \A s \in IPStringInputs :
          /\ LookupIPv4String(c, s)
               => IF WellFormedIPv4[s] THEN LooksUpCanonical(call'[c], s)
                  ELSE RejectedAsInvalid(call'[c])
          /\ LookupIPv6String(c, s)
               => IF WellFormedIPv6[s] THEN LooksUpCanonical(call'[c], s)
                  ELSE RejectedAsInvalid(call'[c])
          /\ LookupIPString(c, s)
               => IF WellFormedIP[s] THEN LooksUpCanonical(call'[c], s)
                  ELSE RejectedAsInvalid(call'[c])]_vars

\* C8, amended: LookupIPString rejects every text net.ParseIP rejects with
\* "invalid IP" before anything is consulted, and looks a well-formed one up
\* under the canonical text of the parsed address, as "ipv4" when it has a
\* 4-byte form and as "ipv6" otherwise.  LookupIPv4String and
\* LookupIPv6String neither parse nor reject: they look the given text up
\* unchanged, as "ipv4" resp. "ipv6".
C8_OnlyLookupIPStringValidates ==
    [][\A c \in Callers : Begins(c) => \A s \in IPStringInputs :
          /\ LookupIPString(c, s)
               => IF WellFormedIP[s]
                  THEN /\ LooksUpCanonical(call'[c], s)
                       /\ call'[c].entity = IF WellFormedIPv4[s] THEN "ipv4"
                                            ELSE "ipv6"
                  ELSE /\ RejectedAsInvalid(call'[c])
                       /\ call'[c].err = ErrInvalidIP
          /\ LookupIPv4String(c, s)
               => /\ call'[c].err = NoError
                  /\ call'[c].entity = "ipv4" /\ call'[c].value = s
                  /\ call'[c].isLoadedSeen # "-"
          /\ LookupIPv6String(c, s)
               => /\ call'[c].err = NoError
                  /\ call'[c].entity = "ipv6" /\ call'[c].value = s
                  /\ call'[c].isLoadedSeen # "-"]_vars

\* C8's case: LookupIPString rejected a malformed text, and a malformed text
\* handed to LookupIPv4String reached the filter's test.
C8_Witness ==
    /\ call[1].pc = "done" /\ call[1].err = ErrInvalidIP
    /\ ConsultedNothing(call[1])
    /\ call[2].entity = "ipv4" /\ call[2].value = "1.2.3"
    /\ ~WellFormedIP["1.2.3"]
    /\ call[2].testCalls # <<>>

(***************************************************************************)
(*               Properties of LookupDomain's normalization                *)
(***************************************************************************)

EndsWithDot(s) == Len(s) >= 1 /\ At(s, Len(s)) = "."
EndsWithTwoDots(s) == Len(s) >= 2 /\ SubSeq(s, Len(s) - 1, Len(s)) = ".."

\* k is d lower-cased, character by character, over the length of d.
LowerCasedPrefix(k, d) ==
    /\ Len(k) >= Len(d)
    /\ \A i \in 1..Len(d) :
         LET u == IndexIn(UpperLetters, At(d, i))
         IN  At(k, i) = IF u = 0 THEN At(d, i) ELSE At(LowerLetters, u)

WithoutTrailingDot(s) == IF EndsWithDot(s) THEN SubSeq(s, 1, Len(s) - 1) ELSE s

\* x and y differ at most in letter case and in one of them having a single
\* trailing '.' that the other lacks.
SameDomainName(x, y) ==
    LET a == WithoutTrailingDot(x)
        b == WithoutTrailingDot(y)
    IN  /\ Len(a) = Len(b)
        /\ \A i \in 1..Len(a) :
             \/ At(a, i) = At(b, i)
             \/ /\ IndexIn(UpperLetters, At(a, i)) # 0
                /\ IndexIn(UpperLetters, At(a, i)) = IndexIn(LowerLetters, At(b, i))
             \/ /\ IndexIn(UpperLetters, At(b, i)) # 0
                /\ IndexIn(UpperLetters, At(b, i)) = IndexIn(LowerLetters, At(a, i))

\* C10, as the spec states it: normalizing a normalized value changes
\* nothing, and two inputs that differ only in letter case or in a single
\* trailing '.' get the identical lookup key.
C10_NormalizationCanonical ==
    /\ rekeyA # NotRun => rekeyA = keyA
    /\ (keyA # NotRun /\ keyB # NotRun /\ SameDomainName(domA, domB))
         => keyA = keyB

(***************************************************************************)
(*                  Properties of the record's key                         *)
(***************************************************************************)

\* The key the first Save gives a record with these fields.
FirstSaveKey(profileID, ip) ==
    "cache:intel/ipInfo/"
        \o (IF profileID = "" THEN "global" ELSE profileID) \o "/" \o ip

\* C11: the first Save sets the key to "cache:intel/ipInfo/<ProfileID>/<IP>"
\* with "global" for an empty ProfileID; once set, the key is never
\* reassigned, whatever Save, AddDomain or assignments to IP and ProfileID
\* follow, and every Put writes under that one key.
C11_KeyAssignedOnce ==
    /\ [][/\ (dbKey = "" /\ dbKey' # "")
              => dbKey' = FirstSaveKey(ProfileID, IP)
          /\ dbKey # "" => dbKey' = dbKey
          /\ store' # store
              => /\ dbKey # ""
                 /\ DOMAIN store' = {dbKey}
                 /\ \A t \in Threads : pc'[t] = "Put" => pc[t] = "Put"]_vars
    /\ [](\A t \in Threads : pc[t] = "Put" => dbKey # "")

\* C11's case: the record was saved, its IP and ProfileID were then
\* reassigned, and a later Save wrote it again under the first key.
C11_Witness ==
    /\ dbKey = FirstSaveKey("", "1.2.3.4")
    /\ IP = "2001:db8::1"
    /\ ProfileID = "profileB"
    /\ DOMAIN store = {dbKey}
    /\ store[dbKey].IP = "2001:db8::1"
    /\ store[dbKey].ProfileID = "profileB"

(***************************************************************************)
(*            Properties of the lookup entry points, continued             *)
(***************************************************************************)

\* C12: every lookup entry point returns a (sources, error) result for
\* every input, the empty domain and a nil or zero-length IP included,
\* loaded or not: no call ends in a panic.
C12_NoLookupCrashes ==
    \A c \in Callers : call[c].err # PanicIndexOutOfRange

\* The family of the address an IP text denotes, "" when it denotes none.
IPTextFamily(text) ==
    LET p == ParseIP(text)
    IN  IF p = NilIP THEN "" ELSE IF To4(p) # NilIP THEN "ipv4" ELSE "ipv6"

\* text is the canonical text of the address it denotes.
IsCanonicalIPText(text) ==
    ParseIP(text) # NilIP /\ IPString(ParseIP(text)) = text

\* C13: LookupIP resolves once, as "ipv4" with the dotted-quad text when the
\* address has a 4-byte form and as "ipv6" with the canonical IPv6 text
\* otherwise; and whenever LookupIP, LookupIPv4 or LookupIPv6 reaches
\* lookupBlockLists, the value is the canonical text of an address of the
\* family its entity kind names.
C13_KindMatchesFamily ==
    [][\A c \in Callers : Begins(c) => \A ip \in IPInputs :
          /\ LookupIP(c, ip)
               => IF To4(ip) # NilIP
                  THEN /\ call'[c].err = NoError
                       /\ call'[c].entity = "ipv4"
                       /\ call'[c].value = IPString(To4(ip))
                  ELSE IF To16(ip) # NilIP
                  THEN /\ call'[c].err = NoError
                       /\ call'[c].entity = "ipv6"
                       /\ call'[c].value = IPString(To16(ip))
                  ELSE RejectedAsInvalid(call'[c])
          /\ (/\ LookupIP(c, ip) \/ LookupIPv4(c, ip) \/ LookupIPv6(c, ip)
              /\ call'[c].err \notin EntryErrors)
               => /\ IsCanonicalIPText(call'[c].value)
                  /\ IPTextFamily(call'[c].value) = call'[c].entity]_vars

(***************************************************************************)
(*                       Properties of GetIPInfo                           *)
(***************************************************************************)

\* C14: GetIPInfo(profileID, ip) reads the key built from exactly the given
\* (profileID, ip); an absent key gives the store's NotFound error and no
\* record; a wrapped record that decodes gives a newly unwrapped IPInfo; an
\* *IPInfo gives that record itself; a record that is neither gives a
\* type-mismatch error and no record.
C14_GetIPInfoOutcomes ==
    getCall.pc = "returned"
        => LET key == "cache:intel/ipInfo/" \o getCall.profileID \o "/"
                          \o getCall.ip
               stored == getDB[key]
           IN  /\ getCall.asked = key
               /\ stored = "absent"
                    => getCall.info = Nil /\ getCall.err = GetErrNotFound
               /\ stored = "wrapped"
                    => /\ getCall.info = <<[key |-> key]>>
                       /\ getCall.allocated
                       /\ getCall.err = NoError
               /\ stored = "IPInfo"
                    => /\ getCall.info = <<[key |-> key]>>
                       /\ ~getCall.allocated
                       /\ getCall.err = NoError
               /\ stored = "other"
                    => getCall.info = Nil /\ getCall.err = GetErrNotIPInfo
               /\ getCall.info = Nil <=> getCall.err # NoError

\* C14's case: a record of another type was stored under the asked key
\* while an IPInfo sits under the key of the empty profile.
C14_Witness ==
    /\ getCall.pc = "returned"
    /\ getCall.profileID = "profileA"
    /\ getDB[getCall.asked] = "other"
    /\ getDB["cache:intel/ipInfo//" \o getCall.ip] = "IPInfo"
    /\ getCall.err = GetErrNotIPInfo

(***************************************************************************)
(*                       Properties of package ui                          *)
(***************************************************************************)

C19_CacheFilledOnce ==
    [][\A m \in ModuleNames :
          /\ apps'[m] # apps[m]
               => /\ apps'[m] \in 1..Len(bundles)
                  /\ bundles[apps'[m]] = m
                  /\ apps[m] = 0
          /\ bundles' # bundles
               => Cardinality({i \in 1..Len(bundles') : bundles'[i] = m}) <= 1
      ]_vars

\* C20: every reader ServeFileFromBundle opened is closed when it returns,
\* for GET, for HEAD and when copying the body fails.
C20_ReadersClosed ==
    \A h \in Handlers :
        handler[h].pc = "done" => handler[h].closed = Len(handler[h].opened)

(***************************************************************************)
(*             Properties of concurrent AddDomain and Save                 *)
(***************************************************************************)

\* C16: under any interleaving of AddDomain and Save, every record handed
\* to the store by Save's Put has an absolute expiry of at least the
\* largest Expires among the ResolvedDomains in that written record, plus
\* 3600.
C16_StoredExpiryCoversDomains ==
    \A k \in DOMAIN store :
        store[k].ResolvedDomains # <<>>
            => store[k].Expires
                   >= LargestExpires(store[k].ResolvedDomains) + 3600

(***************************************************************************)
(*                   Properties of the filter lock                         *)
(***************************************************************************)

\* The lookups between their RLock and their return.
InLookupSection == {c \in Callers : call[c].pc \in {"test", "query"}}

\* C17: a lookup holds the read side of filterListLock from before the
\* filter's test until it returns, and only the read side; a reload, which
\* holds the write side while it swaps the filter, never runs during a
\* lookup's test or between the test and that lookup's store query; several
\* lookups may be in that section together.
C17_LookupsExcludeReload ==
    /\ [](/\ lockReaders = InLookupSection
          /\ lockWriter => lockReaders = {})
    /\ [][(defaultFilter' # defaultFilter \/ loaded' # loaded \/ lockWriter')
            => InLookupSection = {}]_vars

\* C17's case: two lookups are inside the read-locked section together,
\* one at its test and one at its store query, after a reload.
C17_Witness ==
    /\ loaded
    /\ lockReaders = {1, 2}
    /\ call[1].pc = "test"
    /\ call[2].pc = "query"

(***************************************************************************)
(*                  Properties of lock release                             *)
(***************************************************************************)

\* No method of the record and no lookup is back at its caller, or at
\* Save's Put, with its lock still held.
NothingReturnsLocked ==
    /\ \A t \in Threads :
         recOp[t].pc \in {"idle", "Lock", "Put", "returned"} => mu # t
    /\ \A c \in Callers :
         lkCall[c].pc \in {"idle", "RLock", "returned"}
             => c \notin rwLock.readers

\* C18: AddDomain, MostRecentDomain, Save and String release the record's
\* mutex on every path (Save before its Put), and lookupBlockLists releases
\* the filter read lock on every return path; so, under fair scheduling and
\* with store calls returning, every operation waiting for the record's
\* mutex and every pending reload eventually gets its lock.
C18_LocksReleased ==
    /\ []NothingReturnsLocked
    /\ \A t \in Threads : (recOp[t].pc = "Lock") ~> (mu = t)
    /\ (reloadPc = "Lock") ~> rwLock.writer

\* C18's case: Save is at its Put with the mutex released while another
\* goroutine waits for the mutex in String; a lookup is about to return on
\* the store error path while a reload waits for the write side.
C18_Witness ==
    /\ recOp[1] = [method |-> "Save", pc |-> "Put"]
    /\ recOp[2] = [method |-> "String", pc |-> "Lock"]
    /\ mu = 0
    /\ lkCall[1] = [pc |-> "RUnlock", path |-> "store error"]
    /\ reloadPc = "Lock"

====
